---------------------------- MODULE Spec2Model ----------------------------
(***************************************************************************)
(* Model of package coinset (src/coinset/coins.go): the subset accumulator *)
(* with its cached totals, the target predicate, the three sort-then-scan  *)
(* selectors built on SelectMinIndex, and MinPrioritySelect with its       *)
(* recursive low-priority supplement.                                      *)
(*                                                                         *)
(* A coin is a record [amt, va] (Amount(), ValueAge()).  A collection is a *)
(* sequence of coins; Go's 0-based position i is element i + 1 here, and   *)
(* index lists hold the Go (0-based) positions.  All values stay far below *)
(* the int64 range, so the arithmetic is plain integer arithmetic.         *)
(***************************************************************************)
EXTENDS Integers, Sequences, FiniteSets

(***************************************************************************)
(* Bounds of the model.                                                    *)
(***************************************************************************)
MaxCoins == 3
MaxTarget == 3
MaxMaxInputs == 2
MaxMinChange == 2
MaxThreshold == 2
MaxIdxs == 3

(***************************************************************************)
(* SimpleCoin: Amount() is the output's amount, ValueAge() the product of  *)
(* the number of confirmations and the amount.                             *)
(***************************************************************************)
SimpleCoin(amount, txNumConfs) == [amt |-> amount, va |-> txNumConfs * amount]

\* the amounts and confirmation counts the coins of the model are drawn from
Amounts == {0, 1, 2}
Confirmations == {0, 1, 2}
CoinValues == {SimpleCoin(x, n) : x \in Amounts, n \in Confirmations}
SeqsUpTo(S, n) == UNION {[1..k -> S] : k \in 0..n}
Collections == SeqsUpTo(CoinValues, MaxCoins)

\* Args{MaxInputs, MinChangeAmount}
Args == [MaxInputs : 0..MaxMaxInputs, MinChangeAmount : 0..MaxMinChange]
Targets == 0..MaxTarget

VARIABLES
    \* subset accumulator (struct subset)
    set, idxs, totalValue, totalValueAge,
    \* the last subset operation invoked and how it ended
    lastOp, outcome,
    \* one call of SelectMinIndex / MinNumberSelect / MaxValueAgeSelect
    selCall, selCoins, selRet,
    \* one call of MinPrioritySelect: the shared backing array, the call
    \* stack, the value in flight from a returning call, the top-level result
    prioCall, coins, stack, ret, calls

subsetVars == <<set, idxs, totalValue, totalValueAge, lastOp, outcome>>
selVars == <<selCall, selCoins, selRet>>
prioVars == <<prioCall, coins, stack, ret, calls>>
vars == <<subsetVars, selVars, prioVars>>

(***************************************************************************)
(* Independent arithmetic used by the properties.                          *)
(***************************************************************************)
RECURSIVE SumAmt(_)
SumAmt(s) == IF s = <<>> THEN 0 ELSE Head(s).amt + SumAmt(Tail(s))

RECURSIVE SumVa(_)
SumVa(s) == IF s = <<>> THEN 0 ELSE Head(s).va + SumVa(Tail(s))

\* the coins of collection c at the 0-based positions listed in ix
CoinsAt(c, ix) == [k \in 1..Len(ix) |-> c[ix[k] + 1]]

Min(a, b) == IF a < b THEN a ELSE b

(***************************************************************************)
(* subset: newSubset, pushBack, popBack, popFront, subTotals.              *)
(***************************************************************************)
RECURSIVE newSubsetLoop(_, _, _)
newSubsetLoop(c, ix, s) ==
    IF ix = <<>> THEN s
    ELSE LET coin == c[Head(ix) + 1]
         IN  newSubsetLoop(c, Tail(ix),
                 [s EXCEPT !.totalValue = @ + coin.amt,
                           !.totalValueAge = @ + coin.va])

newSubset(c, ix) ==
    newSubsetLoop(c, ix, [set |-> c, idxs |-> ix, totalValue |-> 0, totalValueAge |-> 0])

subTotalsDrift(s, c) ==
    [s EXCEPT !.totalValue = @ - c.amt]

subTotals(s, c) ==
    [s EXCEPT !.totalValue = @ - c.amt, !.totalValueAge = @ - c.va]

cur == [set |-> set, idxs |-> idxs, totalValue |-> totalValue, totalValueAge |-> totalValueAge]

Store(s) ==
    /\ set' = s.set
    /\ idxs' = s.idxs
    /\ totalValue' = s.totalValue
    /\ totalValueAge' = s.totalValueAge

pushBack(i) ==
    /\ outcome = "ok"
    /\ Len(idxs) < MaxIdxs
    /\ LET c == set[i + 1]
       IN  Store([cur EXCEPT !.idxs = Append(@, i),
                             !.totalValue = @ + c.amt,
                             !.totalValueAge = @ + c.va])
    /\ lastOp' = "pushBack"
    /\ outcome' = "ok"

\* idxs[len(idxs)-1] on an empty slice is a run-time panic (index out of
\* range) raised before anything is assigned.
popBack ==
    /\ outcome = "ok"
    /\ lastOp' = "popBack"
    /\ IF Len(idxs) = 0
       THEN /\ outcome' = "panic"
            /\ UNCHANGED <<set, idxs, totalValue, totalValueAge>>
       ELSE LET i == idxs[Len(idxs)]
                back == set[i + 1]
            IN  /\ Store(subTotals([cur EXCEPT !.idxs = SubSeq(@, 1, Len(@) - 1)], back))
                /\ outcome' = "ok"

\* idxs[0] on an empty slice is the same run-time panic.
popFront ==
    /\ outcome = "ok"
    /\ lastOp' = "popFront"
    /\ IF Len(idxs) = 0
       THEN /\ outcome' = "panic"
            /\ UNCHANGED <<set, idxs, totalValue, totalValueAge>>
       ELSE LET i == idxs[1]
                front == set[i + 1]
            IN  /\ Store(subTotals([cur EXCEPT !.idxs = Tail(@)], front))
                /\ outcome' = "ok"

indexes == idxs

(***************************************************************************)
(* satisfiesTargetAmount and the scan of SelectMinIndex.                   *)
(***************************************************************************)
satisfiesOvershootOnly(target, minChange, total) ==
    total >= target + minChange

satisfiesIgnoringMinChange(target, minChange, total) ==
    total >= target

satisfiesTargetAmount(target, minChange, total) ==
    total = target \/ total >= target + minChange

Failure == [err |-> TRUE, idxs |-> <<>>]
Success(ix) == [err |-> FALSE, idxs |-> ix]

\* the body of the for loop of SelectMinIndex from position i on, with the
\* running total; `limit` is the loop's bound on i
RECURSIVE scan(_, _, _, _, _, _)
scan(i, total, limit, target, c, a) ==
    IF i < limit
    THEN LET coin == c[i + 1]
             tot == total + coin.amt
         IN  IF satisfiesTargetAmount(target, a.MinChangeAmount, tot)
             THEN Success([k \in 1..(i + 1) |-> k - 1])
             ELSE scan(i + 1, tot, limit, target, c, a)
    ELSE Failure

SelectMinIndexNoBudget(a, target, c) ==
    scan(0, 0, Len(c), target, c, a)

SelectMinIndexOneBased(a, target, c) ==
    LET r == scan(0, 0, Min(Len(c), a.MaxInputs), target, c, a)
    IN  IF r.err THEN r ELSE Success([k \in 1..Len(r.idxs) |-> k])

SelectMinIndex(a, target, c) ==
    scan(0, 0, Min(Len(c), a.MaxInputs), target, c, a)

(***************************************************************************)
(* byAmount.Less, byValueAge.Less and sort.Sort.  sort.Sort promises a     *)
(* sorted permutation and no stability, so a sort has every sorted         *)
(* permutation of its input as a possible outcome.  MaxInputs is taken     *)
(* from 0 up: make() with a negative capacity panics before the scan.      *)
(***************************************************************************)
byAmountLess(x, y) == x.amt < y.amt

byValueAgeLess(x, y) == x.va < y.va

\* The orders in which the positions S can follow one another so that no
\* later one is less than an earlier one; less[i][j] is Less(i, j).
RECURSIVE Orders(_, _)
Orders(less, S) ==
    IF S = {} THEN {<<>>}
    ELSE UNION {{<<k>> \o rest : rest \in Orders(less, S \ {k})} :
                   k \in {k \in S : \A j \in S : ~less[j][k]}}

Arranged(c, less) == {[m \in 1..Len(c) |-> c[p[m]]] : p \in Orders(less, 1..Len(c))}

\* sort.Sort(byAmount{c})
sortByAmount(c) ==
    Arranged(c, [i \in 1..Len(c) |-> [j \in 1..Len(c) |-> byAmountLess(c[i], c[j])]])

\* sort.Sort(sort.Reverse(byAmount{c})): Less(i, j) is byAmount's Less(j, i)
sortReverseByAmount(c) ==
    Arranged(c, [i \in 1..Len(c) |-> [j \in 1..Len(c) |-> byAmountLess(c[j], c[i])]])

\* sort.Sort(byValueAge{c})
sortByValueAge(c) ==
    Arranged(c, [i \in 1..Len(c) |-> [j \in 1..Len(c) |-> byValueAgeLess(c[i], c[j])]])

\* sort.Sort(sort.Reverse(byValueAge{c}))
sortReverseByValueAge(c) ==
    Arranged(c, [i \in 1..Len(c) |-> [j \in 1..Len(c) |-> byValueAgeLess(c[j], c[i])]])

\* The possible outcomes of MinNumberSelect: the collection as reordered in
\* place and the value returned.
MinNumberSelect(a, target, c) ==
    {[coins |-> s, ret |-> SelectMinIndex(a, target, s)] : s \in sortReverseByAmount(c)}

MaxValueAgeSelect(a, target, c) ==
    {[coins |-> s, ret |-> SelectMinIndex(a, target, s)] : s \in sortReverseByValueAge(c)}

(***************************************************************************)
(* One call of a selector on a caller's collection.                        *)
(***************************************************************************)
Returned(op, a, target, r) ==
    /\ selCall' = [op |-> op, a |-> a, target |-> target, before |-> selCoins]
    /\ selCoins' = r.coins
    /\ selRet' = [state |-> "returned", err |-> r.ret.err, idxs |-> r.ret.idxs]

SelectMinIndexCall ==
    /\ selRet.state = "ready"
    /\ \E a \in Args, target \in Targets :
          Returned("SelectMinIndex", a, target,
                   [coins |-> selCoins, ret |-> SelectMinIndex(a, target, selCoins)])

MinNumberSelectCall ==
    /\ selRet.state = "ready"
    /\ \E a \in Args, target \in Targets :
          \E r \in MinNumberSelect(a, target, selCoins) :
             Returned("MinNumberSelect", a, target, r)

MaxValueAgeSelectCall ==
    /\ selRet.state = "ready"
    /\ \E a \in Args, target \in Targets :
          \E r \in MaxValueAgeSelect(a, target, selCoins) :
             Returned("MaxValueAgeSelect", a, target, r)

NoArgs == [MaxInputs |-> 0, MinChangeAmount |-> 0]

(***************************************************************************)
(* CoinSet, the materialised selection MinPrioritySelect builds and        *)
(* returns: an ordered list of coins with cached totals.                   *)
(***************************************************************************)
PushCoin(cs, c) ==
    [coins |-> Append(cs.coins, c),
     totalValue |-> cs.totalValue + c.amt,
     totalValueAge |-> cs.totalValueAge + c.va]

PopCoin(cs) ==
    LET c == cs.coins[Len(cs.coins)]
    IN  [coins |-> SubSeq(cs.coins, 1, Len(cs.coins) - 1),
         totalValue |-> cs.totalValue - c.amt,
         totalValueAge |-> cs.totalValueAge - c.va]

RECURSIVE PushCoins(_, _)
PushCoins(cs, list) ==
    IF list = <<>> THEN cs ELSE PushCoins(PushCoin(cs, Head(list)), Tail(list))

NewCoinSet(list) ==
    PushCoins([coins |-> <<>>, totalValue |-> 0, totalValueAge |-> 0], list)

Num(cs) == Len(cs.coins)

(***************************************************************************)
(* MinPrioritySelect, one step at a time.  Every call works on a prefix    *)
(* coins[0:n] of one backing array, so a frame holds n, the call's         *)
(* arguments and its locals.                                               *)
(***************************************************************************)
\* Go's integer division truncates toward zero (d > 0 here)
GoDiv(x, d) == IF x >= 0 THEN x \div d ELSE -((-x) \div d)

Frame(n, minAvg, target, a) ==
    [n |-> n, minAvgValueAgePerInput |-> minAvg, target |-> target, a |-> a,
     cutoffIndex |-> -1, i |-> 0, numLow |-> 0, pc |-> "entry"]

top == stack[Len(stack)]
SetTop(f) == [stack EXCEPT ![Len(stack)] = f]
Pop == SubSeq(stack, 1, Len(stack) - 1)
NoRet == [kind |-> "none", sel |-> <<>>]
ErrNoSelection == [kind |-> "err", sel |-> <<>>]
Selection(list) == [kind |-> "ok", sel |-> list]

\* coins[lo:hi] of the backing array (Go bounds), and the array with that
\* range replaced
Slice(lo, hi) == SubSeq(coins, lo + 1, hi)
WithSlice(lo, hi, part) ==
    SubSeq(coins, 1, lo) \o part \o SubSeq(coins, hi + 1, Len(coins))

\* the first position of c whose ValueAge() is at least minAvg, or -1
FirstAtLeast(c, minAvg) ==
    LET hits == {k \in 0..(Len(c) - 1) : c[k + 1].va >= minAvg}
    IN  IF hits = {} THEN -1 ELSE CHOOSE k \in hits : \A j \in hits : k <= j

\* the padding loop over the low-priority coins from position n on
RECURSIVE extend(_, _, _)
extend(ext, n, f) ==
    IF n < f.cutoffIndex
    THEN IF Num(ext) >= f.a.MaxInputs THEN ext
         ELSE IF coins[n + 1].va = 0 THEN extend(ext, n + 1, f)
         ELSE LET pushed == PushCoin(ext, coins[n + 1])
              IN  IF GoDiv(pushed.totalValueAge, Num(pushed)) < f.minAvgValueAgePerInput
                  THEN extend(PopCoin(pushed), n + 1, f)
                  ELSE extend(pushed, n + 1, f)
    ELSE ext

\* the slice a recursive call of frame f is made on
lowSliceWhole(f) == f.n

lowSlice(f) == f.cutoffIndex

\* the bound of the numLow loop
numLowWithinBudget(f) ==
    /\ f.numLow <= f.cutoffIndex
    /\ f.numLow + (f.i - f.cutoffIndex) <= f.a.MaxInputs

allHighOf(f) == NewCoinSet(Slice(f.cutoffIndex, f.i + 1))

MinPrioritySelectCall ==
    /\ prioCall.op = "none"
    /\ \E minAvg \in 0..MaxThreshold, target \in Targets, a \in Args :
          /\ prioCall' = [op |-> "MinPrioritySelect", minAvg |-> minAvg,
                          target |-> target, a |-> a]
          /\ stack' = <<Frame(Len(coins), minAvg, target, a)>>
    /\ calls' = 1
    /\ UNCHANGED <<coins, ret>>

\* sort.Sort(byValueAge{coins}) and the search for cutoffIndex
Enter ==
    /\ stack # <<>>
    /\ top.pc = "entry"
    /\ \E s \in sortByValueAge(Slice(0, top.n)) :
          LET cut == FirstAtLeast(s, top.minAvgValueAgePerInput)
          IN  /\ coins' = WithSlice(0, top.n, s)
              /\ IF cut < 0
                 THEN stack' = Pop /\ ret' = ErrNoSelection
                 ELSE /\ stack' = SetTop([top EXCEPT !.cutoffIndex = cut, !.i = cut,
                                                     !.pc = "window"])
                      /\ ret' = NoRet
    /\ UNCHANGED <<prioCall, calls>>

\* one turn of the loop over i: MinNumberSelect on coins[cutoffIndex : i+1],
\* then either the padding branch or the start of the numLow loop
Window ==
    /\ stack # <<>>
    /\ top.pc = "window"
    /\ IF top.i < top.n
       THEN \E r \in MinNumberSelect(top.a, top.target, Slice(top.cutoffIndex, top.i + 1)) :
               /\ coins' = WithSlice(top.cutoffIndex, top.i + 1, r.coins)
               /\ IF r.ret.err
                  THEN /\ stack' = SetTop([top EXCEPT !.numLow = 1, !.pc = "low"])
                       /\ ret' = NoRet
                  ELSE /\ stack' = Pop
                       /\ ret' = Selection(
                              extend(NewCoinSet(CoinsAt(r.coins, r.ret.idxs)), 0, top).coins)
       ELSE /\ stack' = Pop
            /\ ret' = ErrNoSelection
            /\ UNCHANGED coins
    /\ UNCHANGED <<prioCall, calls>>

\* one turn of the loop over numLow: the recursive call on the low-priority
\* coins, or on to the next i
Low ==
    /\ stack # <<>>
    /\ top.pc = "low"
    /\ IF numLowWithinBudget(top)
       THEN LET allHigh == allHighOf(top)
                newTargetValue == top.target - allHigh.totalValue
                newMaxInputs == Min(Num(allHigh) + top.numLow, top.numLow)
                newMinAvgValueAge ==
                    GoDiv(top.minAvgValueAgePerInput * (Num(allHigh) + top.numLow)
                              - allHigh.totalValueAge, top.numLow)
            IN  /\ Len(stack) <= MaxCoins + 1    \* the goroutine's stack is finite
                /\ stack' = Append(SetTop([top EXCEPT !.pc = "wait"]),
                                   Frame(lowSlice(top), newMinAvgValueAge, newTargetValue,
                                         [MaxInputs |-> newMaxInputs,
                                          MinChangeAmount |-> top.a.MinChangeAmount]))
                /\ calls' = calls + 1
       ELSE /\ stack' = SetTop([top EXCEPT !.i = @ + 1, !.pc = "window"])
            /\ UNCHANGED calls
    /\ UNCHANGED <<prioCall, coins, ret>>

\* the recursive call has returned
Resume ==
    /\ stack # <<>>
    /\ top.pc = "wait"
    /\ ret.kind # "none"
    /\ IF ret.kind = "err"
       THEN /\ stack' = SetTop([top EXCEPT !.numLow = @ + 1, !.pc = "low"])
            /\ ret' = NoRet
       ELSE /\ stack' = Pop
            /\ ret' = Selection(PushCoins(allHighOf(top), ret.sel).coins)
    /\ UNCHANGED <<prioCall, coins, calls>>

SelIdle ==
    /\ selCall = [op |-> "none", a |-> NoArgs, target |-> 0, before |-> <<>>]
    /\ selCoins = <<>>
    /\ selRet = [state |-> "idle", err |-> FALSE, idxs |-> <<>>]

PrioIdle ==
    /\ prioCall = [op |-> "none", minAvg |-> 0, target |-> 0, a |-> NoArgs]
    /\ coins = <<>>
    /\ stack = <<>>
    /\ ret = NoRet
    /\ calls = 0

SubsetIdle ==
    /\ set = <<>>
    /\ idxs = <<>>
    /\ totalValue = 0
    /\ totalValueAge = 0
    /\ lastOp = "none"
    /\ outcome = "ok"

SubsetInit ==
    /\ \E c \in Collections :
         \E ix \in SeqsUpTo(0..(Len(c) - 1), 2) :
            LET s == newSubset(c, ix)
            IN  /\ set = s.set
                /\ idxs = s.idxs
                /\ totalValue = s.totalValue
                /\ totalValueAge = s.totalValueAge
    /\ lastOp = "newSubset"
    /\ outcome = "ok"
    /\ SelIdle
    /\ PrioIdle

SubsetNext ==
    \/ \E i \in 0..(Len(set) - 1) : pushBack(i) /\ UNCHANGED <<selVars, prioVars>>
    \/ popBack /\ UNCHANGED <<selVars, prioVars>>
    \/ popFront /\ UNCHANGED <<selVars, prioVars>>

SubsetSpec == SubsetInit /\ [][SubsetNext]_vars

(***************************************************************************)
(* C1: after newSubset and after every pushBack, popBack or popFront on a  *)
(* non-empty subset, totalValue is the sum of Amount() and totalValueAge   *)
(* the sum of ValueAge() over the indices currently in idxs.               *)
(***************************************************************************)
C1_SubsetTotals ==
    /\ totalValue = SumAmt(CoinsAt(set, idxs))
    /\ totalValueAge = SumVa(CoinsAt(set, idxs))

C1_Witness ==
    /\ lastOp = "popFront"
    /\ outcome = "ok"
    /\ Len(idxs) = 2
    /\ idxs[1] # idxs[2]
    /\ totalValue = 3
    /\ totalValueAge = 4

(***************************************************************************)
(* C5 (as claimed): popBack or popFront on an empty subset ends with an    *)
(* EmptySubset error and leaves idxs and both totals unchanged.            *)
(***************************************************************************)
C5_PopEmptyIsEmptySubsetError ==
    [][(Len(idxs) = 0 /\ lastOp' \in {"popBack", "popFront"})
         => (outcome' = "EmptySubset" /\ UNCHANGED <<idxs, totalValue, totalValueAge>>)]_vars


SelectInit ==
    /\ selCall = [op |-> "none", a |-> NoArgs, target |-> 0, before |-> <<>>]
    /\ selCoins \in Collections
    /\ selRet = [state |-> "ready", err |-> FALSE, idxs |-> <<>>]
    /\ SubsetIdle
    /\ PrioIdle

SelectNext ==
    \/ SelectMinIndexCall /\ UNCHANGED <<subsetVars, prioVars>>
    \/ MinNumberSelectCall /\ UNCHANGED <<subsetVars, prioVars>>
    \/ MaxValueAgeSelectCall /\ UNCHANGED <<subsetVars, prioVars>>

SelectSpec == SelectInit /\ [][SelectNext]_vars

\* what a returned call selected, and the claims' vocabulary
selOk == selRet.state = "returned" /\ ~selRet.err
selErr == selRet.state = "returned" /\ selRet.err
selTotal == SumAmt(CoinsAt(selCoins, selRet.idxs))
MeetsTarget(total) ==
    total = selCall.target \/ total >= selCall.target + selCall.a.MinChangeAmount
Positions == 1..Len(selCoins)
RECURSIVE SumAmtOver(_, _)
SumAmtOver(c, P) ==
    IF P = {} THEN 0
    ELSE LET k == CHOOSE x \in P : TRUE IN c[k].amt + SumAmtOver(c, P \ {k})
PrefixTotal(k) == SumAmt(SubSeq(selCoins, 1, k))

(***************************************************************************)
(* C2: a non-error return of SelectMinIndex, MinNumberSelect or            *)
(* MaxValueAgeSelect lists coins (positions in the collection as ordered   *)
(* at return) whose amounts sum to exactly target or to at least           *)
(* target + MinChangeAmount.                                               *)
(***************************************************************************)
C2_TargetSatisfied == selOk => MeetsTarget(selTotal)

C2_Witness ==
    /\ selOk
    /\ selCall.op = "MaxValueAgeSelect"
    /\ selCall.before # selCoins
    /\ Len(selRet.idxs) = 2
    /\ selCall.a.MinChangeAmount = 1
    /\ selTotal = selCall.target + 1

(***************************************************************************)
(* C3: a non-error return has at most MaxInputs and at most Len() indices, *)
(* pairwise distinct and all valid positions of the collection.            *)
(***************************************************************************)
C3_BudgetRespected ==
    selOk =>
        /\ Len(selRet.idxs) <= selCall.a.MaxInputs
        /\ Len(selRet.idxs) <= Len(selCoins)
        /\ \A k \in 1..Len(selRet.idxs) : selRet.idxs[k] \in 0..(Len(selCoins) - 1)
        /\ \A j, k \in 1..Len(selRet.idxs) : selRet.idxs[j] = selRet.idxs[k] => j = k

C3_Witness ==
    /\ selOk
    /\ selCall.op = "MinNumberSelect"
    /\ Len(selRet.idxs) = selCall.a.MaxInputs
    /\ Len(selRet.idxs) = 2
    /\ Len(selCoins) = 3

(***************************************************************************)
(* C4 (as claimed): when a selector returns ErrCoinsNoSelectionAvailable,  *)
(* no set of at most MaxInputs coins of the collection has a total equal   *)
(* to target or at least target + MinChangeAmount.  (Read of sets of at    *)
(* least one coin: a selection is never empty.)                            *)
(***************************************************************************)
C4_ErrorMeansNothingSelectable ==
    selErr =>
        ~\E P \in SUBSET Positions :
            /\ P # {}
            /\ Cardinality(P) <= selCall.a.MaxInputs
            /\ MeetsTarget(SumAmtOver(selCoins, P))

(***************************************************************************)
(* C4 (amended): when a selector returns ErrCoinsNoSelectionAvailable, no  *)
(* prefix of 1 to MaxInputs coins of the collection, in the order the      *)
(* collection has when the call returns, has a total equal to target or    *)
(* at least target + MinChangeAmount.                                      *)
(***************************************************************************)
C4_ErrorMeansNoPrefixSelectable ==
    selErr =>
        \A k \in 1..Min(Len(selCoins), selCall.a.MaxInputs) : ~MeetsTarget(PrefixTotal(k))

C4_Witness ==
    /\ selErr
    /\ selCall.op = "MinNumberSelect"
    /\ selCall.a.MaxInputs = 1
    /\ Len(selCoins) = 2
    /\ \E k \in Positions : MeetsTarget(selCoins[k].amt)

(***************************************************************************)
(* C6 (as claimed): when MinNumberSelect returns k coins, no set of fewer  *)
(* than k coins of the collection has a total equal to target or at least  *)
(* target + MinChangeAmount.  (Read of sets of at least one coin: a        *)
(* selection is never empty.)                                              *)
(***************************************************************************)
C6_FewestInputs ==
    (selOk /\ selCall.op = "MinNumberSelect") =>
        ~\E P \in SUBSET Positions :
            /\ P # {}
            /\ Cardinality(P) < Len(selRet.idxs)
            /\ MeetsTarget(SumAmtOver(selCoins, P))

(***************************************************************************)
(* C6 (amended): when MinNumberSelect returns k coins, no set of at least  *)
(* one and fewer than k coins of the collection has a total of at least    *)
(* target + MinChangeAmount (a smaller set may still total exactly         *)
(* target when MinChangeAmount > 0).                                       *)
(***************************************************************************)
C6_FewestInputsToOvershoot ==
    (selOk /\ selCall.op = "MinNumberSelect") =>
        ~\E P \in SUBSET Positions :
            /\ P # {}
            /\ Cardinality(P) < Len(selRet.idxs)
            /\ SumAmtOver(selCoins, P) >= selCall.target + selCall.a.MinChangeAmount

C6_Witness ==
    /\ selOk
    /\ selCall.op = "MinNumberSelect"
    /\ Len(selRet.idxs) = 2
    /\ selCall.a.MinChangeAmount > 0
    /\ \E k \in Positions : selCoins[k].amt = selCall.target

(***************************************************************************)
(* C9: SelectMinIndex returns the index list 0..i for the smallest         *)
(* position i below min(Len(), MaxInputs) at which the total of coins 0..i *)
(* equals target or is at least target + MinChangeAmount; it returns the   *)
(* error, with no index list, exactly when there is no such position; and  *)
(* it leaves the collection in the order it had.                           *)
(***************************************************************************)
C9_ShortestSatisfyingPrefix ==
    (selRet.state = "returned" /\ selCall.op = "SelectMinIndex") =>
        LET good == {i \in 0..(Min(Len(selCoins), selCall.a.MaxInputs) - 1) :
                        MeetsTarget(PrefixTotal(i + 1))}
        IN  /\ selRet.err <=> good = {}
            /\ selRet.err => selRet.idxs = <<>>
            /\ ~selRet.err =>
                  \E i \in good :
                     /\ \A j \in good : i <= j
                     /\ selRet.idxs = [k \in 1..(i + 1) |-> k - 1]
            /\ selCoins = selCall.before

C9_Witness ==
    /\ selOk
    /\ selCall.op = "SelectMinIndex"
    /\ Len(selCoins) = 3
    /\ selRet.idxs = <<0, 1>>
    /\ selCoins[1].amt < selCoins[3].amt
    /\ selCall.a.MaxInputs = 2


PriorityInit ==
    /\ prioCall = [op |-> "none", minAvg |-> 0, target |-> 0, a |-> NoArgs]
    /\ coins \in Collections
    /\ stack = <<>>
    /\ ret = NoRet
    /\ calls = 0
    /\ SubsetIdle
    /\ SelIdle

PriorityNext ==
    \/ MinPrioritySelectCall /\ UNCHANGED <<subsetVars, selVars>>
    \/ Enter /\ UNCHANGED <<subsetVars, selVars>>
    \/ Window /\ UNCHANGED <<subsetVars, selVars>>
    \/ Low /\ UNCHANGED <<subsetVars, selVars>>
    \/ Resume /\ UNCHANGED <<subsetVars, selVars>>

\* Straight-line code of one goroutine: a step that can be taken is taken.
PrioritySpec == PriorityInit /\ [][PriorityNext]_vars /\ WF_vars(PriorityNext)

prioReturned == prioCall.op = "MinPrioritySelect" /\ stack = <<>> /\ ret.kind # "none"
prioOk == prioReturned /\ ret.kind = "ok"

(***************************************************************************)
(* C7 (as claimed): a non-error return of MinPrioritySelect is a selection *)
(* whose total amount equals target or is at least target +                *)
(* MinChangeAmount and whose total ValueAge is at least                    *)
(* minAvgValueAgePerInput times the number of coins selected.              *)
(***************************************************************************)
C7_MinimumAveragePriority ==
    prioOk =>
        /\ \/ SumAmt(ret.sel) = prioCall.target
           \/ SumAmt(ret.sel) >= prioCall.target + prioCall.a.MinChangeAmount
        /\ SumVa(ret.sel) >= prioCall.minAvg * Len(ret.sel)

(***************************************************************************)
(* C8 (as claimed): a non-error return of MinPrioritySelect holds at most  *)
(* MaxInputs coins.                                                        *)
(***************************************************************************)
C8_PriorityBudgetRespected ==
    prioOk => Len(ret.sel) <= prioCall.a.MaxInputs

(***************************************************************************)
(* C10: every call of MinPrioritySelect, with all its nested recursive     *)
(* calls, eventually returns a selection or the error.                     *)
(***************************************************************************)
C10_Terminates ==
    (prioCall.op = "MinPrioritySelect") ~> (stack = <<>> /\ ret.kind # "none")

C10_Witness ==
    /\ prioOk
    /\ calls >= 3

=============================================================================
